---- MODULE Spec2Model ----
(***************************************************************************)
(* Bearer-token authentication against a keystore: the two implementations *)
(* of the repository, src/src/auth.js (HS512/ES512, verifying-kid aware)   *)
(* and src/unnamed/part_000 (HS256, fixed default max age).  Definitions   *)
(* of part_000 carry the prefix p0_, the others the names of auth.js.      *)
(*                                                                         *)
(* A keystore is the sequence of its entries in Object.keys order.  A      *)
(* token is what the jsonwebtoken primitive can tell about it: whether it  *)
(* decodes, its header (kid, alg), the key that signed it, its payload     *)
(* (application claims and exp claim) and whether its iat is older than a  *)
(* max age.                                                                *)
(***************************************************************************)
EXTENDS Integers, Sequences, FiniteSets, TLC

VARIABLES keystore, op, token, cfg, req, outcome, locals, nextArg, response, source

vars == <<keystore, op, token, cfg, req, outcome, locals, nextArg, response, source>>

(* ------------------------------ bounds -------------------------------- *)
MaxKeys == 2

KeyIds == {"default", "k1", "k2"}
Secrets == {"s1", "s2"}
Claims == {"p1", "p2"}
Algs == {"HS256", "HS512", "ES512"}

(* JavaScript's undefined, for a key id, a key or an option. *)
Undefined == "undefined"

(* ------------------------------ keystore ------------------------------ *)
Ids(ks) == {ks[i].id : i \in 1..Len(ks)}

\* keystore[kid]: the entry's key, undefined when there is none
Lookup(ks, kid) ==
  IF \E i \in 1..Len(ks) : ks[i].id = kid
  THEN (CHOOSE e \in {ks[i] : i \in 1..Len(ks)} : e.id = kid).key
  ELSE Undefined

Keystores ==
  {ks \in UNION {[1..n -> [id : KeyIds, key : Secrets]] : n \in 0..MaxKeys} :
     \A i, j \in 1..Len(ks) : i # j => ks[i].id # ks[j].id}

(* ------------------------------- tokens ------------------------------- *)
NoToken == [kind |-> "none"]
Garbage == [kind |-> "garbage"]
NoPayload == [claims |-> Undefined, exp |-> "none"]

Payloads == [claims : Claims, exp : {"none", "future", "past"}]

JwtTokens ==
  [kind : {"jwt"}, kid : KeyIds \cup {Undefined}, alg : Algs, sig : Secrets,
   old : BOOLEAN, payload : [claims : {"p1"}, exp : {"none", "future", "past"}]]

Tokens == JwtTokens \cup {Garbage}

(* ------------------------ the jsonwebtoken primitive ------------------- *)
Null == [kind |-> "null"]
NoError == [kind |-> "none", message |-> ""]
StringError(s) == [kind |-> "string", message |-> s]
Error(m) == [kind |-> "Error", message |-> m]

\* jwt.decode(token, {complete: true}): null for what is no token
jwtDecode(t) ==
  IF t.kind = "jwt"
  THEN [kind |-> "decoded", header |-> [kid |-> t.kid, alg |-> t.alg], payload |-> t.payload]
  ELSE Null

\* jwt.verify(token, key, options): the payload, or the error thrown
jwtVerify(t, key, options) ==
  IF t.kind # "jwt" THEN [error |-> Error("jwt malformed"), payload |-> NoPayload]
  ELSE IF t.alg \notin options.algorithms
    THEN [error |-> Error("invalid algorithm"), payload |-> NoPayload]
  ELSE IF t.sig # key THEN [error |-> Error("invalid signature"), payload |-> NoPayload]
  ELSE IF t.payload.exp = "past" THEN [error |-> Error("jwt expired"), payload |-> NoPayload]
  ELSE IF options.maxAge # Undefined /\ t.old
    THEN [error |-> Error("maxAge exceeded"), payload |-> NoPayload]
  ELSE [error |-> NoError, payload |-> t.payload]

\* jwt.sign(payload, key, {algorithm, header: {kid}}): the token, or the error thrown
jwtSign(payload, key, algorithm, kid) ==
  IF key = Undefined
  THEN [error |-> Error("secretOrPrivateKey must have a value"), token |-> NoToken]
  ELSE [error |-> NoError,
        token |-> [kind |-> "jwt", kid |-> kid, alg |-> algorithm, sig |-> key,
                   old |-> FALSE, payload |-> payload]]

(* ================= src/src/auth.js: Verification Engine ================ *)
\* what a verifier returns: [error, payload, kid], and the keys it handed to jwt.verify
Result(error, payload, kid, tried) ==
  [error |-> error, payload |-> payload, kid |-> kid, tried |-> tried]

\* the switch over purpose
algorithmsFor(purpose) ==
  CASE purpose = "local" -> {"HS512"}
    [] purpose = "public" -> {"ES512"}
    [] OTHER -> {}

\* jwtOptions: the max age is set only for a decoded payload without exp
jwtOptions(t, purpose, maxJwtAge) ==
  LET decoded == jwtDecode(t) IN
  [algorithms |-> algorithmsFor(purpose),
   maxAge |-> IF decoded # Null /\ decoded.payload.exp = "none" THEN maxJwtAge ELSE Undefined]

verifyWithKid(t, ks, options) ==
  LET decoded == jwtDecode(t) IN
  IF decoded # Null /\ decoded.header.kid # Undefined /\ Lookup(ks, decoded.header.kid) # Undefined
  THEN LET kid == decoded.header.kid
           v == jwtVerify(t, Lookup(ks, kid), options)
       IN IF v.error = NoError
          THEN Result(NoError, v.payload, kid, <<kid>>)
          ELSE Result(v.error, NoPayload, Undefined, <<kid>>)
  ELSE Result(StringError("kid verification failed"), NoPayload, Undefined, <<>>)

verifyWithDefault(t, ks, options) ==
  LET key == Lookup(ks, "default") IN
  IF key # Undefined
  THEN LET v == jwtVerify(t, key, options)
       IN IF v.error = NoError
          THEN Result(NoError, v.payload, "default", <<"default">>)
          ELSE Result(v.error, NoPayload, Undefined, <<"default">>)
  ELSE Result(StringError("default verification failed"), NoPayload, Undefined, <<>>)

\* a scan that gives up at the first key that fails instead of moving on
RECURSIVE scanFrom_stopAtFirst(_, _, _, _, _)
scanFrom_stopAtFirst(t, ks, options, i, tried) ==
  IF i > Len(ks)
  THEN Result(StringError("all verification failed"), NoPayload, Undefined, tried)
  ELSE IF ks[i].id # "default"
    THEN LET v == jwtVerify(t, ks[i].key, options)
         IN IF v.error = NoError
            THEN Result(NoError, v.payload, ks[i].id, Append(tried, ks[i].id))
            ELSE Result(StringError("all verification failed"), NoPayload, Undefined,
                        Append(tried, ks[i].id))
    ELSE scanFrom_stopAtFirst(t, ks, options, i + 1, tried)

\* the for-in loop of verifyWithKeystore from entry i on; every error is caught
RECURSIVE scanFrom(_, _, _, _, _)
scanFrom(t, ks, options, i, tried) ==
  IF i > Len(ks)
  THEN Result(StringError("all verification failed"), NoPayload, Undefined, tried)
  ELSE IF ks[i].id # "default"
    THEN LET v == jwtVerify(t, ks[i].key, options)
         IN IF v.error = NoError
            THEN Result(NoError, v.payload, ks[i].id, Append(tried, ks[i].id))
            ELSE scanFrom(t, ks, options, i + 1, Append(tried, ks[i].id))
    ELSE scanFrom(t, ks, options, i + 1, tried)

verifyWithKeystore(t, ks, options) == scanFrom(t, ks, options, 1, <<>>)

\* the verifiers with the default fallback ahead of the key-id lookup
verifiers_defaultFirst(t, ks, options) ==
  <<verifyWithDefault(t, ks, options), verifyWithKid(t, ks, options),
    verifyWithKeystore(t, ks, options)>>

\* the verifiers array, in its order
verifiers(t, ks, options) ==
  <<verifyWithKid(t, ks, options), verifyWithDefault(t, ks, options),
    verifyWithKeystore(t, ks, options)>>

\* a classification without the exception for "invalid signature"
isFatal_any(error) == error.kind = "Error" /\ error.message # ""

\* error && error.message && error.message !== "invalid signature"
isFatal(error) ==
  error.kind = "Error" /\ error.message # "" /\ error.message # "invalid signature"

Outcome(status, payload, kid, cause, tried) ==
  [status |-> status, payload |-> payload, kid |-> kid, cause |-> cause, tried |-> tried]

NoOutcome == Outcome("none", NoPayload, Undefined, "", <<>>)

\* the loop over the verifiers and the final check of payload
RECURSIVE runVerifiers(_, _, _)
runVerifiers(rs, i, tried) ==
  IF i > Len(rs)
  THEN Outcome("NoMatchingKey", NoPayload, Undefined, "", tried)
  ELSE LET r == rs[i]
           t2 == tried \o r.tried
       IN IF isFatal(r.error)
          THEN Outcome("VerificationError", NoPayload, Undefined, r.error.message, t2)
          ELSE IF r.payload # NoPayload
            THEN Outcome("ok", r.payload, r.kid, "", t2)
            ELSE runVerifiers(rs, i + 1, t2)

verifyTokenAndReturnPayloadAndKid(t, ks, purpose, maxJwtAge) ==
  runVerifiers(verifiers(t, ks, jwtOptions(t, purpose, maxJwtAge)), 1, <<>>)

(* ================= src/src/auth.js: Middleware Adapter ================= *)
NoHeader == [nparts |-> 0, scheme |-> "", credentials |-> NoToken]
Bearer(t) == [nparts |-> 2, scheme |-> "Bearer", credentials |-> t]

\* the token of the request, or the error thrown
extractToken(r) ==
  IF r.query # NoToken THEN [error |-> "none", token |-> r.query]
  ELSE IF r.authorization.nparts > 0
    THEN IF r.authorization.nparts = 2 /\ r.authorization.scheme = "Bearer"
         THEN [error |-> "none", token |-> r.authorization.credentials]
         ELSE [error |-> "MalformedAuthorizationHeader", token |-> NoToken]
    ELSE [error |-> "none", token |-> NoToken]

\* REQUIRE_AUTH, when set, decides; NODE_ENV otherwise
required(env) ==
  IF env.REQUIRE_AUTH # Undefined
  THEN env.REQUIRE_AUTH \notin {"false", "FALSE", "0"}
  ELSE env.NODE_ENV = "production"

NoLocals == [payload |-> NoPayload, kid |-> Undefined]

Handled(loc, err, out) == [locals |-> loc, next |-> err, outcome |-> out]

\* _authMiddleware: res.locals (JWTPayload, JWTVerifyingKid), the argument of next,
\* and the engine's outcome when the engine ran
buildMiddleware(r, ks, isRequired, purpose, maxJwtAge) ==
  LET x == extractToken(r) IN
  IF x.error # "none" THEN Handled(NoLocals, x.error, NoOutcome)
  ELSE IF x.token # NoToken
    THEN LET decoded == jwtDecode(x.token)
             loc == [payload |-> IF decoded = Null THEN NoPayload ELSE decoded.payload,
                     kid |-> Undefined]
         IN IF isRequired
            THEN LET v == verifyTokenAndReturnPayloadAndKid(x.token, ks, purpose, maxJwtAge)
                 IN IF v.status = "ok"
                    THEN Handled([loc EXCEPT !.kid = v.kid], "none", v)
                    ELSE Handled(loc, v.status, v)
            ELSE Handled(loc, "none", NoOutcome)
    ELSE IF isRequired THEN Handled(NoLocals, "MissingToken", NoOutcome)
    ELSE Handled(NoLocals, "none", NoOutcome)

\* every error the middleware passes on is an UnauthorizedError: _deny answers 401
errorHandler(err) == IF err # "none" THEN 401 ELSE 0

(* ================= src/src/auth.js: Issuance Engine ==================== *)
\* a selection without the fallbacks
signingKey_noFallback(ks, kid) == Lookup(ks, kid)

\* a selection that prefers "default" to the requested kid
signingKey_defaultFirst(ks, kid) ==
  IF Lookup(ks, "default") # Undefined THEN Lookup(ks, "default")
  ELSE IF Lookup(ks, kid) # Undefined THEN Lookup(ks, kid)
  ELSE IF Len(ks) > 0 THEN ks[1].key
  ELSE Undefined

\* keystore[kid] || keystore.default || keystore[Object.keys(keystore)[0]]
signingKey(ks, kid) ==
  IF Lookup(ks, kid) # Undefined THEN Lookup(ks, kid)
  ELSE IF Lookup(ks, "default") # Undefined THEN Lookup(ks, "default")
  ELSE IF Len(ks) > 0 THEN ks[1].key
  ELSE Undefined

\* Object.keys(keystore).find(k => keystore[k] === key)
signingKid(ks, key) ==
  IF \E i \in 1..Len(ks) : ks[i].key = key
  THEN ks[CHOOSE i \in 1..Len(ks) : ks[i].key = key /\ \A j \in 1..(i - 1) : ks[j].key # key].id
  ELSE Undefined

Issued(status, t) == [status |-> status, token |-> t]

createToken(payload, ks, kid, algorithm) ==
  LET key == signingKey(ks, kid)
      s == jwtSign(payload, key, algorithm, signingKid(ks, key))
  IN IF s.error = NoError THEN Issued("ok", s.token) ELSE Issued("SigningError", NoToken)

(* ======================= src/unnamed/part_000 ========================== *)
\* process.env.MAX_JWT_AGE || "5s"
p0_maxAge(maxJwtAge) == IF maxJwtAge # Undefined THEN maxJwtAge ELSE "5s"

p0_options(maxJwtAge) == [algorithms |-> {"HS256"}, maxAge |-> p0_maxAge(maxJwtAge)]

p0_getToken(r) ==
  IF r.query # NoToken THEN [error |-> "none", token |-> r.query]
  ELSE IF r.authorization.nparts > 0
    THEN IF r.authorization.nparts = 2 /\ r.authorization.scheme = "Bearer"
         THEN [error |-> "none", token |-> r.authorization.credentials]
         ELSE [error |-> "MalformedAuthorizationHeader", token |-> NoToken]
    ELSE [error |-> "MissingToken", token |-> NoToken]

p0_verifyWithKid(t, ks, options) ==
  LET decoded == jwtDecode(t) IN
  IF decoded # Null /\ decoded.header.kid # Undefined /\ Lookup(ks, decoded.header.kid) # Undefined
  THEN LET v == jwtVerify(t, Lookup(ks, decoded.header.kid), options)
       IN Result(v.error, v.payload, Undefined, <<decoded.header.kid>>)
  ELSE Result(StringError("kid verification failed"), NoPayload, Undefined, <<>>)

p0_verifyWithDefault(t, ks, options) ==
  IF Lookup(ks, "default") # Undefined
  THEN LET v == jwtVerify(t, Lookup(ks, "default"), options)
       IN Result(v.error, v.payload, Undefined, <<"default">>)
  ELSE Result(StringError("default verification failed"), NoPayload, Undefined, <<>>)

RECURSIVE p0_scanFrom(_, _, _, _, _)
p0_scanFrom(t, ks, options, i, tried) ==
  IF i > Len(ks)
  THEN Result(StringError("all verification failed"), NoPayload, Undefined, tried)
  ELSE IF ks[i].id # "default"
    THEN LET v == jwtVerify(t, ks[i].key, options)
         IN IF v.error = NoError
            THEN Result(NoError, v.payload, Undefined, Append(tried, ks[i].id))
            ELSE p0_scanFrom(t, ks, options, i + 1, Append(tried, ks[i].id))
    ELSE p0_scanFrom(t, ks, options, i + 1, tried)

p0_verifyWithKeystore(t, ks, options) == p0_scanFrom(t, ks, options, 1, <<>>)

p0_verifiers(t, ks, options) ==
  <<p0_verifyWithKid(t, ks, options), p0_verifyWithDefault(t, ks, options),
    p0_verifyWithKeystore(t, ks, options)>>

p0_isFatal(error) ==
  error.kind = "Error" /\ error.message # "" /\ error.message # "invalid signature"

RECURSIVE p0_runVerifiers(_, _, _)
p0_runVerifiers(rs, i, tried) ==
  IF i > Len(rs)
  THEN Outcome("NoMatchingKey", NoPayload, Undefined, "", tried)
  ELSE LET r == rs[i]
           t2 == tried \o r.tried
       IN IF p0_isFatal(r.error)
          THEN Outcome("VerificationError", NoPayload, Undefined, r.error.message, t2)
          ELSE IF r.payload # NoPayload
            THEN Outcome("ok", r.payload, Undefined, "", t2)
            ELSE p0_runVerifiers(rs, i + 1, t2)

p0_verifyToken(t, ks, maxJwtAge) ==
  p0_runVerifiers(p0_verifiers(t, ks, p0_options(maxJwtAge)), 1, <<>>)

\* NODE_ENV === "production" || REQUIRE_AUTH === "true"
p0_required(env) == env.NODE_ENV = "production" \/ env.REQUIRE_AUTH = "true"

\* _authMiddleware: res.locals.payload and the argument of next
p0_buildMiddleware(r, ks, maxJwtAge) ==
  LET x == p0_getToken(r) IN
  IF x.error # "none" THEN Handled(NoLocals, x.error, NoOutcome)
  ELSE LET v == p0_verifyToken(x.token, ks, maxJwtAge)
       IN IF v.status = "ok"
          THEN Handled([payload |-> v.payload, kid |-> Undefined], "none", v)
          ELSE Handled(NoLocals, v.status, v)

p0_errorHandler(err) == IF err # "none" THEN 401 ELSE 0

p0_signingKey(ks, kid) ==
  IF Lookup(ks, kid) # Undefined THEN Lookup(ks, kid)
  ELSE IF Lookup(ks, "default") # Undefined THEN Lookup(ks, "default")
  ELSE IF Len(ks) > 0 THEN ks[1].key
  ELSE Undefined

p0_signingKid(ks, key) ==
  IF \E i \in 1..Len(ks) : ks[i].key = key
  THEN ks[CHOOSE i \in 1..Len(ks) : ks[i].key = key /\ \A j \in 1..(i - 1) : ks[j].key # key].id
  ELSE Undefined

\* jwt.sign without an algorithm option signs with HS256
p0_createToken(payload, ks, kid) ==
  LET key == p0_signingKey(ks, kid)
      s == jwtSign(payload, key, "HS256", p0_signingKid(ks, key))
  IN IF s.error = NoError THEN Issued("ok", s.token) ELSE Issued("SigningError", NoToken)

(* ============================ state machine ============================ *)
\* Calls share nothing but the keystore snapshot: a behaviour is one call made on
\* the initial state, and createToken may be followed by verifying its token.
Envs == [REQUIRE_AUTH : {Undefined, "true", "false", "FALSE", "0"},
         NODE_ENV : {"production", "development"}]
MaxJwtAges == {Undefined, "1h"}
Purposes == {"local", "public"}

\* requests: a token in the query, a token in a Bearer header, neither, and
\* Authorization headers of the wrong scheme or arity
Requests ==
  {[query |-> t, authorization |-> NoHeader] : t \in Tokens}
  \cup {[query |-> NoToken, authorization |-> Bearer(t)] : t \in Tokens}
  \cup {[query |-> NoToken, authorization |-> NoHeader],
        [query |-> NoToken, authorization |-> [nparts |-> 2, scheme |-> "Basic", credentials |-> Garbage]],
        [query |-> NoToken, authorization |-> [nparts |-> 1, scheme |-> "Bearer", credentials |-> NoToken]],
        [query |-> NoToken, authorization |-> [nparts |-> 3, scheme |-> "Bearer", credentials |-> Garbage]],
        [query |-> Garbage, authorization |-> [nparts |-> 2, scheme |-> "Basic", credentials |-> Garbage]]}

NoReq == [query |-> NoToken, authorization |-> NoHeader]
Cfg(impl, purpose, maxJwtAge, isRequired, kid, algorithm) ==
  [impl |-> impl, purpose |-> purpose, maxJwtAge |-> maxJwtAge, isRequired |-> isRequired,
   kid |-> kid, algorithm |-> algorithm]
NoSource == [from |-> "input", P |-> NoPayload]

Init ==
  /\ keystore \in Keystores
  /\ op = "init"
  /\ token = NoToken
  /\ cfg = Cfg("none", "local", Undefined, FALSE, Undefined, "HS512")
  /\ req = NoReq
  /\ outcome = NoOutcome
  /\ locals = NoLocals
  /\ nextArg = "none"
  /\ response = 0
  /\ source = NoSource

\* auth.js verifyToken on a token from outside
VerifyToken ==
  /\ op = "init"
  /\ \E t \in Tokens, purpose \in Purposes, age \in MaxJwtAges :
    /\ op' = "verifyToken"
    /\ token' = t
    /\ cfg' = Cfg("auth", purpose, age, FALSE, Undefined, "HS512")
    /\ outcome' = verifyTokenAndReturnPayloadAndKid(t, keystore, purpose, age)
    /\ source' = NoSource
    /\ req' = NoReq /\ locals' = NoLocals /\ nextArg' = "none" /\ response' = 0
    /\ UNCHANGED keystore

\* auth.js verifyToken on the token createToken has just returned
VerifyIssuedToken ==
  /\ op = "createToken" /\ cfg.impl = "auth" /\ outcome.status = "ok"
  /\ \E purpose \in Purposes, age \in MaxJwtAges :
       /\ op' = "verifyToken"
       /\ cfg' = [cfg EXCEPT !.purpose = purpose, !.maxJwtAge = age]
       /\ outcome' = verifyTokenAndReturnPayloadAndKid(token, keystore, purpose, age)
  /\ req' = NoReq /\ locals' = NoLocals /\ nextArg' = "none" /\ response' = 0
  /\ UNCHANGED <<keystore, token, source>>

\* auth.js createToken
CreateToken ==
  /\ op = "init"
  /\ \E P \in Payloads, kid \in KeyIds \cup {Undefined}, algorithm \in {"HS512", "ES512"} :
    LET c == createToken(P, keystore, kid, algorithm) IN
    /\ op' = "createToken"
    /\ token' = c.token
    /\ cfg' = Cfg("auth", "local", Undefined, FALSE, kid, algorithm)
    /\ outcome' = Outcome(c.status, NoPayload, Undefined, "", <<>>)
    /\ source' = [from |-> "createToken", P |-> P]
    /\ req' = NoReq /\ locals' = NoLocals /\ nextArg' = "none" /\ response' = 0
    /\ UNCHANGED keystore

\* auth.js _authMiddleware followed by errorHandler
Middleware ==
  /\ op = "init"
  /\ \E r \in Requests, env \in Envs, purpose \in Purposes, age \in MaxJwtAges :
    LET h == buildMiddleware(r, keystore, required(env), purpose, age) IN
    /\ op' = "middleware"
    /\ req' = r
    /\ token' = extractToken(r).token
    /\ cfg' = Cfg("auth", purpose, age, required(env), Undefined, "HS512")
    /\ outcome' = h.outcome
    /\ locals' = h.locals
    /\ nextArg' = h.next
    /\ response' = errorHandler(h.next)
    /\ source' = NoSource
    /\ UNCHANGED keystore

\* part_000 verifyToken
p0_VerifyToken ==
  /\ op = "init"
  /\ \E t \in Tokens, age \in MaxJwtAges :
    /\ op' = "verifyToken"
    /\ token' = t
    /\ cfg' = Cfg("part_000", "local", age, FALSE, Undefined, "HS256")
    /\ outcome' = p0_verifyToken(t, keystore, age)
    /\ source' = NoSource
    /\ req' = NoReq /\ locals' = NoLocals /\ nextArg' = "none" /\ response' = 0
    /\ UNCHANGED keystore

\* part_000 createToken
p0_CreateToken ==
  /\ op = "init"
  /\ \E P \in Payloads, kid \in KeyIds \cup {Undefined} :
    LET c == p0_createToken(P, keystore, kid) IN
    /\ op' = "createToken"
    /\ token' = c.token
    /\ cfg' = Cfg("part_000", "local", Undefined, FALSE, kid, "HS256")
    /\ outcome' = Outcome(c.status, NoPayload, Undefined, "", <<>>)
    /\ source' = [from |-> "createToken", P |-> P]
    /\ req' = NoReq /\ locals' = NoLocals /\ nextArg' = "none" /\ response' = 0
    /\ UNCHANGED keystore

\* part_000 _authMiddleware followed by errorHandler
p0_Middleware ==
  /\ op = "init"
  /\ \E r \in Requests, env \in Envs, age \in MaxJwtAges :
    LET h == p0_buildMiddleware(r, keystore, age) IN
    /\ op' = "middleware"
    /\ req' = r
    /\ token' = p0_getToken(r).token
    /\ cfg' = Cfg("part_000", "local", age, p0_required(env), Undefined, "HS256")
    /\ outcome' = h.outcome
    /\ locals' = h.locals
    /\ nextArg' = h.next
    /\ response' = p0_errorHandler(h.next)
    /\ source' = NoSource
    /\ UNCHANGED keystore

Next ==
  \/ VerifyToken
  \/ VerifyIssuedToken
  \/ CreateToken
  \/ Middleware
  \/ p0_VerifyToken
  \/ p0_CreateToken
  \/ p0_Middleware

Spec == Init /\ [][Next]_vars

(* ============================== properties ============================= *)
\* the options the call in the current state verifies with
Opts ==
  IF cfg.impl = "auth" THEN jwtOptions(token, cfg.purpose, cfg.maxJwtAge)
  ELSE p0_options(cfg.maxJwtAge)

\* the Verification Engine's verdict on the current token
Verdict ==
  IF cfg.impl = "auth"
  THEN verifyTokenAndReturnPayloadAndKid(token, keystore, cfg.purpose, cfg.maxJwtAge).status
  ELSE p0_verifyToken(token, keystore, cfg.maxJwtAge).status

Verifies(key) == jwtVerify(token, key, Opts).error = NoError
Keys(ks) == {ks[i].key : i \in 1..Len(ks)}
AuthFailures ==
  {"MalformedAuthorizationHeader", "MissingToken", "NoMatchingKey", "VerificationError"}

\* C1: a request that carries a token gets a payload attached only when the engine
\* verified the token, and a token that fails verification is answered with an
\* authorization failure (401), under either value of the required policy.
C1_TokenIsVerified ==
  (op = "middleware" /\ token # NoToken) =>
    /\ (locals.payload # NoPayload => outcome.status = "ok")
    /\ (Verdict # "ok" => (nextArg \in AuthFailures /\ response = 401))

\* C2: a token whose signature is valid under a keystore key but which is expired
\* (or past the max age) fails with VerificationError carrying that cause, and the
\* key that produced the failure is the last key tried.
C2_FatalIsSurfaced ==
  (/\ op = "verifyToken"
   /\ token.kind = "jwt"
   /\ \E k \in Keys(keystore) :
        jwtVerify(token, k, Opts).error.message \in {"jwt expired", "maxAge exceeded"}) =>
    /\ outcome.status = "VerificationError"
    /\ outcome.cause \in {"jwt expired", "maxAge exceeded"}
    /\ Len(outcome.tried) > 0
    /\ Lookup(keystore, outcome.tried[Len(outcome.tried)]) = token.sig

\* C3: a token that cannot be decoded fails with VerificationError and no keystore
\* key is tried against it.
C3_UndecodableIsVerificationError ==
  (op = "verifyToken" /\ token = Garbage) =>
    (outcome.status = "VerificationError" /\ outcome.tried = <<>>)

\* C4, as stated: for any payload P, any non-empty keystore and any requested kid,
\* createToken returns a token and verifying it against the same keystore succeeds
\* with a payload equal to P and a matched key id of the keystore.
C4_RoundTripAnyPayload ==
  /\ (op = "createToken" /\ cfg.impl = "auth" /\ Len(keystore) > 0) => outcome.status = "ok"
  /\ (/\ op = "verifyToken"
      /\ source.from = "createToken"
      /\ cfg.algorithm \in algorithmsFor(cfg.purpose)) =>
       /\ outcome.status = "ok"
       /\ outcome.payload = source.P
       /\ outcome.kid \in Ids(keystore)

\* C4, amended: the round trip holds for any payload P that carries no expiration
\* claim already in the past.
C4_RoundTrip ==
  /\ (op = "createToken" /\ cfg.impl = "auth" /\ Len(keystore) > 0) => outcome.status = "ok"
  /\ (/\ op = "verifyToken"
      /\ source.from = "createToken"
      /\ source.P.exp # "past"
      /\ cfg.algorithm \in algorithmsFor(cfg.purpose)) =>
       /\ outcome.status = "ok"
       /\ outcome.payload = source.P
       /\ outcome.kid \in Ids(keystore)

\* a round trip for a requested kid the keystore lacks, with neither "default" nor
\* the first entry being the only choice
C4_Witness ==
  /\ op = "verifyToken"
  /\ source.from = "createToken"
  /\ cfg.algorithm \in algorithmsFor(cfg.purpose)
  /\ cfg.kid # Undefined
  /\ cfg.kid \notin Ids(keystore)
  /\ Len(keystore) = MaxKeys
  /\ outcome.status = "ok"
  /\ outcome.payload = source.P

\* C5: a header kid K of the keystore whose key verifies the token is the matched
\* key id whatever else would verify; with no kid or a kid the keystore lacks, and
\* "default" and another entry both verifying, the matched key id is "default".
C5_Priority ==
  (op = "verifyToken" /\ cfg.impl = "auth" /\ token.kind = "jwt") =>
    /\ (/\ token.kid # Undefined
        /\ token.kid \in Ids(keystore)
        /\ Verifies(Lookup(keystore, token.kid))) =>
         (outcome.status = "ok" /\ outcome.kid = token.kid)
    /\ (/\ token.kid \notin Ids(keystore)
        /\ "default" \in Ids(keystore)
        /\ Verifies(Lookup(keystore, "default"))
        /\ \E i \in 1..Len(keystore) :
             keystore[i].id # "default" /\ Verifies(keystore[i].key)) =>
         (outcome.status = "ok" /\ outcome.kid = "default")

\* the kid's key and the "default" key both verify, and the kid is reported
C5_Witness ==
  /\ op = "verifyToken" /\ cfg.impl = "auth" /\ token.kind = "jwt"
  /\ token.kid \in Ids(keystore) \ {"default"}
  /\ "default" \in Ids(keystore)
  /\ Verifies(Lookup(keystore, token.kid))
  /\ Verifies(Lookup(keystore, "default"))
  /\ outcome.kid = token.kid

\* C6: a token without kid that exactly one entry X verifies, X not "default", is
\* verified and reported as X, wherever X stands and whether or not a "default"
\* entry exists.
C6_ScanFindsTheKey ==
  (/\ op = "verifyToken" /\ cfg.impl = "auth" /\ token.kind = "jwt"
   /\ token.kid = Undefined) =>
    \A i \in 1..Len(keystore) :
      (/\ keystore[i].id # "default"
       /\ Verifies(keystore[i].key)
       /\ \A j \in 1..Len(keystore) : j # i => ~Verifies(keystore[j].key)) =>
        (outcome.status = "ok" /\ outcome.kid = keystore[i].id)

\* X is the last entry, behind an entry whose signature mismatch was skipped
C6_Witness ==
  /\ op = "verifyToken" /\ cfg.impl = "auth" /\ token.kind = "jwt"
  /\ token.kid = Undefined
  /\ Len(keystore) = MaxKeys
  /\ \A j \in 1..(Len(keystore) - 1) : ~Verifies(keystore[j].key)
  /\ Verifies(keystore[Len(keystore)].key)
  /\ Len(outcome.tried) > 1
  /\ outcome.status = "ok"
  /\ outcome.kid = keystore[Len(keystore)].id

\* C7: a well-formed, otherwise valid token signed by a key the keystore lacks,
\* with no "default" entry, fails with NoMatchingKey whatever its kid header is.
C7_NoMatchingKey ==
  (/\ op = "verifyToken" /\ token.kind = "jwt"
   /\ Verifies(token.sig)
   /\ token.sig \notin Keys(keystore)
   /\ "default" \notin Ids(keystore)) =>
    outcome.status = "NoMatchingKey"

\* the kid names an entry that holds other key material
C7_Witness ==
  /\ op = "verifyToken" /\ token.kind = "jwt"
  /\ Verifies(token.sig)
  /\ token.sig \notin Keys(keystore)
  /\ "default" \notin Ids(keystore)
  /\ token.kid \in Ids(keystore)
  /\ outcome.status = "NoMatchingKey"

\* C8: a request without any token proceeds with nothing attached when auth is not
\* required, and is rejected with an authorization failure (401) when it is.
C8_AnonymousRequest ==
  (op = "middleware" /\ req = NoReq) =>
    IF cfg.isRequired
    THEN nextArg \in AuthFailures /\ response = 401
    ELSE nextArg = "none" /\ locals = NoLocals

\* C9: createToken signs with the requested kid's key, else the "default" key, else
\* the first entry's key; the header kid is an identifier of the keystore holding
\* that key; an empty keystore yields SigningError and no token.
C9_KeySelection ==
  (op = "createToken") =>
    IF Len(keystore) = 0
    THEN outcome.status = "SigningError" /\ token = NoToken
    ELSE /\ outcome.status = "ok"
         /\ token.sig = (IF cfg.kid \in Ids(keystore) THEN Lookup(keystore, cfg.kid)
                         ELSE IF "default" \in Ids(keystore) THEN Lookup(keystore, "default")
                         ELSE keystore[1].key)
         /\ token.kid \in Ids(keystore)
         /\ Lookup(keystore, token.kid) = token.sig

\* the requested kid wins over "default", and the header names another identifier
\* that holds the same key material
C9_Witness ==
  /\ op = "createToken"
  /\ outcome.status = "ok"
  /\ cfg.kid \in Ids(keystore) \ {"default"}
  /\ "default" \in Ids(keystore)
  /\ token.sig = Lookup(keystore, cfg.kid)
  /\ token.kid # cfg.kid

\* C10: within one verifyToken call no keystore entry is handed to signature
\* verification twice.
C10_EachKeyOnce ==
  (op = "verifyToken") =>
    \A i, j \in 1..Len(outcome.tried) : i # j => outcome.tried[i] # outcome.tried[j]

====
